---------------------------- MODULE Spec2Model ----------------------------
(***************************************************************************)
(* Model of sde::CompManager (displayengine/libs/core/comp_manager.cpp):   *)
(* the composition manager that owns the device registry, the two display  *)
(* bit masks, the global safe-mode flag and the per-cycle strategy         *)
(* selection loop.                                                         *)
(*                                                                         *)
(* Every public entry point takes SCOPE_LOCK(locker_) first.  Prepare,     *)
(* Init, RegisterDevice and PostCommit are sequences of steps of one       *)
(* thread that holds locker_ from its first step to its return; the other  *)
(* entry points are one action each (lock taken and released inside it).   *)
(***************************************************************************)
EXTENDS Naturals, FiniteSets, Sequences

\* Bounds of the model.
MaxThreads == 2       \* caller threads
MaxDevices == 2       \* CompManagerDevice objects alive at once (heap slots)
MaxDeviceType == 1    \* display types are 0..MaxDeviceType
MaxCandidates == 2    \* candidates a loaded strategy provider offers per cycle

Threads == 1..MaxThreads
Handles == 1..MaxDevices
DeviceTypes == 0..MaxDeviceType
NoThread == MaxThreads + 1
NoHandle == MaxDevices + 1

VARIABLES
  strategy_lib_,          \* "NULL" or "lib": the dlopen handle
  strategy_intf_,         \* "NULL", "default" (&strategy_default_) or "loaded"
  registered_displays_,   \* bit mask over display types
  configured_displays_,   \* bit mask over display types
  safe_mode_,             \* the global safety flag
  locker_,                \* the thread that holds the lock, or NoThread
  devices,                \* heap: handle -> CompManagerDevice
  res_mgr_,               \* the resource arbiter: "new", "inited" or "deinited"
  lib_open,               \* whether the strategy module is mapped (dlopen/dlclose)
  duplicate_registered,   \* history: RegisterDevice has succeeded for a type that
                          \* had a live Device at the time
  pc,                     \* per thread: where it is inside an entry point, or
                          \* "idle"
  frame,                  \* per thread: the locals and inputs of its call, and
                          \* what the call has asked of its collaborators
  open_sessions           \* observer of the arbiter: the devices with a
                          \* res_mgr_.Start that no res_mgr_.Stop has followed;
                          \* kept up to date in SpecSessions only

vars == <<strategy_lib_, strategy_intf_, registered_displays_, configured_displays_,
          safe_mode_, locker_, devices, res_mgr_, lib_open, duplicate_registered,
          pc, frame, open_sessions>>

\* The manager's own fields, as touched by the registry and cycle operations.
mgr_bits == <<registered_displays_, configured_displays_, safe_mode_>>
mgr_strategy == <<strategy_lib_, strategy_intf_, lib_open>>

---------------------------------------------------------------------------
\* Bit operations of utils/constants.h as used on the two display masks.

\* 1 << n
Pow2(n) == 2 ^ n

IS_BIT_SET(value, bit) == (value \div Pow2(bit)) % 2 = 1

\* value | (1 << bit)
SET_BIT(value, bit) == IF IS_BIT_SET(value, bit) THEN value ELSE value + Pow2(bit)

\* value & ~(1 << bit)
CLEAR_BIT(value, bit) == IF IS_BIT_SET(value, bit) THEN value - Pow2(bit) ELSE value

\* The display types whose bit is set in a mask.
BitSet(value) == {type \in DeviceTypes : IS_BIT_SET(value, type)}

---------------------------------------------------------------------------
\* Heap of CompManagerDevice objects.

\* The errors res_mgr_.Init and res_mgr_.RegisterDevice can fail with.
ArbiterErrors == {"kErrorResources", "kErrorHardware"}

\* A slot no live device occupies.
FreeDevice ==
  [live |-> FALSE, device_type |-> 0, constraints_safe_mode |-> FALSE,
   committed |-> FALSE]

\* new CompManagerDevice(): constraints zero-initialised; device_type set by
\* RegisterDevice.  committed records whether PostCommit ran for this object.
NewDevice(type) ==
  [live |-> TRUE, device_type |-> type, constraints_safe_mode |-> FALSE,
   committed |-> FALSE]

LiveHandles == {h \in Handles : devices[h].live}

\* The slot the allocator hands out next, NoHandle when the heap is full.
NextFree ==
  IF LiveHandles = Handles THEN NoHandle
  ELSE CHOOSE h \in Handles \ LiveHandles : \A g \in Handles \ LiveHandles : h <= g

LiveTypes == {devices[h].device_type : h \in LiveHandles}

\* The locals of a thread that is not inside an entry point.
IdleFrame ==
  [device |-> NoHandle, flags |-> FALSE, get_calls |-> 0, acquire_calls |-> 0,
   results |-> <<>>, accepted |-> 0, error |-> "kErrorNone", seen |-> {},
   session |-> FALSE, provided |-> "kErrorNone"]

\* SCOPE_LOCK(locker_) at the top of an entry point: the calling thread is
\* outside the manager and the lock is free.
CanLock(t) == pc[t] = "idle" /\ locker_ = NoThread

\* The arbiter is usable between a successful res_mgr_.Init and Deinit.
Ready == res_mgr_ = "inited" /\ strategy_intf_ # "NULL"

---------------------------------------------------------------------------
\* CompManager::CompManager()
Init ==
  /\ strategy_lib_ = "NULL"
  /\ strategy_intf_ = "NULL"
  /\ registered_displays_ = 0
  /\ configured_displays_ = 0
  /\ safe_mode_ = FALSE
  /\ locker_ = NoThread
  /\ devices = [h \in Handles |-> FreeDevice]
  /\ res_mgr_ = "new"
  /\ lib_open = FALSE
  /\ duplicate_registered = FALSE
  /\ pc = [t \in Threads |-> "idle"]
  /\ frame = [t \in Threads |-> IdleFrame]
  /\ open_sessions = {}

\* Init that falls back to the built-in provider without closing the module it
\* had opened.
CompManagerInit_KeepsModule(t, res_error, dlopen_ok, dlsym_ok, entry_ok) ==
  /\ CanLock(t)
  /\ res_mgr_ = "new"
  /\ locker_' = t
  /\ pc' = [pc EXCEPT ![t] = "Init_return"]
  /\ frame' = [frame EXCEPT ![t].error = res_error]
  /\ UNCHANGED <<mgr_bits, devices, duplicate_registered>>
  /\ IF res_error # "kErrorNone"
       THEN UNCHANGED <<mgr_strategy, res_mgr_>>
       ELSE /\ res_mgr_' = "inited"
            /\ strategy_lib_' = IF dlopen_ok THEN "lib" ELSE "NULL"
            /\ lib_open' = dlopen_ok
            /\ strategy_intf_' = IF dlopen_ok /\ dlsym_ok /\ entry_ok
                                   THEN "loaded" ELSE "default"

\* CompManager::Init up to its return.  Inputs: what res_mgr_.Init returns,
\* whether dlopen finds the module, whether dlsym finds the entry symbol,
\* whether the entry call succeeds (and then stores the provider).
\* frame[t].error is the value the call returns.
CompManagerInit(t, res_error, dlopen_ok, dlsym_ok, entry_ok) ==
  /\ CanLock(t)
  /\ res_mgr_ = "new"
  /\ locker_' = t
  /\ pc' = [pc EXCEPT ![t] = "Init_return"]
  /\ frame' = [frame EXCEPT ![t].error = res_error]
  /\ UNCHANGED <<mgr_bits, devices, duplicate_registered>>
  /\ IF res_error # "kErrorNone"
       THEN UNCHANGED <<mgr_strategy, res_mgr_>>
       ELSE LET lib == IF dlopen_ok THEN "lib" ELSE "NULL"
                intf == IF dlopen_ok /\ dlsym_ok /\ entry_ok
                          THEN "loaded" ELSE strategy_intf_
            IN /\ res_mgr_' = "inited"
               /\ IF intf = "NULL"
                    THEN /\ strategy_lib_' = "NULL"
                         /\ lib_open' = FALSE
                         /\ strategy_intf_' = "default"
                    ELSE /\ strategy_lib_' = lib
                         /\ lib_open' = dlopen_ok
                         /\ strategy_intf_' = intf

\* A return that keeps the scope lock when the call returns an error.
Return_KeepsLockOnError(t) ==
  /\ pc[t] \in {"Init_return", "RegisterDevice_return"}
  /\ locker_' = IF frame[t].error # "kErrorNone" THEN locker_ ELSE NoThread
  /\ pc' = [pc EXCEPT ![t] = "idle"]
  /\ frame' = [frame EXCEPT ![t] = IdleFrame]
  /\ UNCHANGED <<mgr_strategy, mgr_bits, devices, res_mgr_, duplicate_registered>>

\* The return of Init and of RegisterDevice: the scope lock is released.
Return(t) ==
  /\ pc[t] \in {"Init_return", "RegisterDevice_return"}
  /\ locker_' = NoThread
  /\ pc' = [pc EXCEPT ![t] = "idle"]
  /\ frame' = [frame EXCEPT ![t] = IdleFrame]
  /\ UNCHANGED <<mgr_strategy, mgr_bits, devices, res_mgr_, duplicate_registered>>

\* CompManager::Deinit
Deinit(t) ==
  /\ CanLock(t)
  /\ res_mgr_ = "inited"
  /\ lib_open' = IF strategy_lib_ # "NULL" THEN FALSE ELSE lib_open
  /\ res_mgr_' = "deinited"
  /\ UNCHANGED <<strategy_lib_, strategy_intf_, mgr_bits, locker_, devices,
                 duplicate_registered, pc, frame>>

\* RegisterDevice without line 111: the new display does not force safe mode.
RegisterDevice_NoSafeMode(t, type, h, alloc_ok, res_error) ==
  /\ CanLock(t)
  /\ Ready
  /\ h = NextFree
  /\ locker_' = t
  /\ pc' = [pc EXCEPT ![t] = "RegisterDevice_return"]
  /\ frame' = [frame EXCEPT ![t].error = IF ~alloc_ok THEN "kErrorMemory"
                                                      ELSE res_error]
  /\ UNCHANGED <<mgr_strategy, res_mgr_>>
  /\ IF ~alloc_ok \/ res_error # "kErrorNone"
       THEN UNCHANGED <<mgr_bits, devices, duplicate_registered>>
       ELSE /\ registered_displays_' = SET_BIT(registered_displays_, type)
            /\ devices' = [devices EXCEPT ![h] = NewDevice(type)]
            /\ duplicate_registered' = (duplicate_registered \/ type \in LiveTypes)
            /\ UNCHANGED <<configured_displays_, safe_mode_>>

\* RegisterDevice that enters safe mode only for a type whose bit was clear.
RegisterDevice_SafeOnlyForNewBit(t, type, h, alloc_ok, res_error) ==
  /\ CanLock(t)
  /\ Ready
  /\ h = NextFree
  /\ locker_' = t
  /\ pc' = [pc EXCEPT ![t] = "RegisterDevice_return"]
  /\ frame' = [frame EXCEPT ![t].error = IF ~alloc_ok THEN "kErrorMemory"
                                                      ELSE res_error]
  /\ UNCHANGED <<mgr_strategy, res_mgr_>>
  /\ IF ~alloc_ok \/ res_error # "kErrorNone"
       THEN UNCHANGED <<mgr_bits, devices, duplicate_registered>>
       ELSE /\ registered_displays_' = SET_BIT(registered_displays_, type)
            /\ devices' = [devices EXCEPT ![h] = NewDevice(type)]
            /\ safe_mode_' = (safe_mode_ \/ ~IS_BIT_SET(registered_displays_, type))
            /\ duplicate_registered' = (duplicate_registered \/ type \in LiveTypes)
            /\ UNCHANGED configured_displays_

\* RegisterDevice that sets the registered bit before it asks the arbiter, and
\* leaves it set when the arbiter fails.
RegisterDevice_SetsBitFirst(t, type, h, alloc_ok, res_error) ==
  /\ CanLock(t)
  /\ Ready
  /\ h = NextFree
  /\ locker_' = t
  /\ pc' = [pc EXCEPT ![t] = "RegisterDevice_return"]
  /\ frame' = [frame EXCEPT ![t].error = IF ~alloc_ok THEN "kErrorMemory"
                                                      ELSE res_error]
  /\ UNCHANGED <<mgr_strategy, res_mgr_>>
  /\ IF ~alloc_ok
       THEN UNCHANGED <<mgr_bits, devices, duplicate_registered>>
       ELSE /\ registered_displays_' = SET_BIT(registered_displays_, type)
            /\ IF res_error # "kErrorNone"
                 THEN UNCHANGED <<configured_displays_, safe_mode_, devices,
                                  duplicate_registered>>
                 ELSE /\ devices' = [devices EXCEPT ![h] = NewDevice(type)]
                      /\ safe_mode_' = TRUE
                      /\ duplicate_registered' =
                           (duplicate_registered \/ type \in LiveTypes)
                      /\ UNCHANGED configured_displays_

\* CompManager::RegisterDevice up to its return.  Inputs: the display type,
\* whether the allocation succeeds, what res_mgr_.RegisterDevice returns.  The
\* new object takes a free heap slot h.  frame[t].error is the value the call
\* returns.
RegisterDevice(t, type, h, alloc_ok, res_error) ==
  /\ CanLock(t)
  /\ Ready
  /\ h = NextFree
  /\ locker_' = t
  /\ pc' = [pc EXCEPT ![t] = "RegisterDevice_return"]
  /\ frame' = [frame EXCEPT ![t].error = IF ~alloc_ok THEN "kErrorMemory"
                                                      ELSE res_error]
  /\ UNCHANGED <<mgr_strategy, res_mgr_>>
  /\ IF ~alloc_ok \/ res_error # "kErrorNone"
       THEN UNCHANGED <<mgr_bits, devices, duplicate_registered>>
       ELSE /\ registered_displays_' = SET_BIT(registered_displays_, type)
            /\ devices' = [devices EXCEPT ![h] = NewDevice(type)]
            /\ safe_mode_' = TRUE
            /\ duplicate_registered' = (duplicate_registered \/ type \in LiveTypes)
            /\ UNCHANGED configured_displays_

\* UnregisterDevice without line 123: the configured bit survives the device.
UnregisterDevice_KeepsConfigured(t, h) ==
  /\ CanLock(t)
  /\ Ready
  /\ devices[h].live
  /\ registered_displays_' = CLEAR_BIT(registered_displays_, devices[h].device_type)
  /\ devices' = [devices EXCEPT ![h] = FreeDevice]
  /\ UNCHANGED <<mgr_strategy, configured_displays_, safe_mode_, locker_, res_mgr_,
                 duplicate_registered, pc, frame>>

\* UnregisterDevice without line 122: the registered bit survives the device.
UnregisterDevice_KeepsRegistered(t, h) ==
  /\ CanLock(t)
  /\ Ready
  /\ devices[h].live
  /\ configured_displays_' = CLEAR_BIT(configured_displays_, devices[h].device_type)
  /\ devices' = [devices EXCEPT ![h] = FreeDevice]
  /\ UNCHANGED <<mgr_strategy, registered_displays_, safe_mode_, locker_, res_mgr_,
                 duplicate_registered, pc, frame>>

\* UnregisterDevice that resets both masks instead of clearing one bit in each.
UnregisterDevice_ClearsAll(t, h) ==
  /\ CanLock(t)
  /\ Ready
  /\ devices[h].live
  /\ registered_displays_' = 0
  /\ configured_displays_' = 0
  /\ devices' = [devices EXCEPT ![h] = FreeDevice]
  /\ UNCHANGED <<mgr_strategy, safe_mode_, locker_, res_mgr_, duplicate_registered,
                 pc, frame>>

\* CompManager::UnregisterDevice on a live handle.
UnregisterDevice(t, h) ==
  /\ CanLock(t)
  /\ Ready
  /\ devices[h].live
  /\ registered_displays_' = CLEAR_BIT(registered_displays_, devices[h].device_type)
  /\ configured_displays_' = CLEAR_BIT(configured_displays_, devices[h].device_type)
  /\ devices' = [devices EXCEPT ![h] = FreeDevice]
  /\ UNCHANGED <<mgr_strategy, safe_mode_, locker_, res_mgr_, duplicate_registered,
                 pc, frame>>

\* PrepareStrategyConstraints that only ever sets constraints.safe_mode.
PrepareStrategyConstraints_Sticky(old, safe_mode, flags) ==
  old \/ safe_mode \/ flags

\* CompManager::PrepareStrategyConstraints: the value left in
\* comp_mgr_device->constraints.safe_mode, which held `old` before the call.
PrepareStrategyConstraints(old, safe_mode, flags) ==
  IF flags THEN TRUE ELSE safe_mode

\* strategy_intf_->GetNextStrategy, call number n of a cycle: the results the
\* provider can give.  The built-in provider offers its one plan and is then
\* exhausted; a loaded provider offers up to MaxCandidates plans and may signal
\* exhaustion at any call.
GetNextStrategy(intf, n) ==
  IF intf = "default"
    THEN IF n = 1 THEN {"kErrorNone"} ELSE {"kErrorUndefined"}
    ELSE IF n <= MaxCandidates THEN {"kErrorNone", "kErrorUndefined"}
                               ELSE {"kErrorUndefined"}

\* res_mgr_.Acquire: the arbiter accepts the plan or has not the resources.
Acquire == {"kErrorNone", "kErrorResources"}

\* CompManager::Prepare up to the loop: lock, constraints, res_mgr_.Start.
\* Inputs: the live handle and hw_layers->info.flags.
PrepareStart(t, h, flags) ==
  /\ CanLock(t)
  /\ Ready
  /\ devices[h].live
  /\ locker_' = t
  /\ devices' = [devices EXCEPT ![h].constraints_safe_mode =
                                   PrepareStrategyConstraints(@, safe_mode_, flags)]
  /\ pc' = [pc EXCEPT ![t] = "Prepare_loop"]
  /\ frame' = [frame EXCEPT ![t] = [IdleFrame EXCEPT !.device = h, !.flags = flags,
                                                       !.session = TRUE]]
  /\ UNCHANGED <<mgr_strategy, mgr_bits, res_mgr_, duplicate_registered>>

\* The loop head: GetNextStrategy, and the early return on its error.
\* frame[t].seen collects the constraints.safe_mode values handed to the
\* provider in this call.
PrepareGetNextStrategy(t, error) ==
  /\ pc[t] = "Prepare_loop"
  /\ error \in GetNextStrategy(strategy_intf_, frame[t].get_calls + 1)
  /\ frame' = [frame EXCEPT
                 ![t].get_calls = @ + 1,
                 ![t].error = error,
                 ![t].provided = error,
                 ![t].seen = @ \cup {devices[frame[t].device].constraints_safe_mode}]
  /\ pc' = [pc EXCEPT ![t] = IF error # "kErrorNone" THEN "Prepare_return"
                                                     ELSE "Prepare_acquire"]
  /\ UNCHANGED <<mgr_strategy, mgr_bits, locker_, devices, res_mgr_,
                 duplicate_registered>>

\* The loop body without its break: the loop asks for the next strategy after
\* a successful Acquire too.
PrepareAcquire_ContinueOnSuccess(t, error) ==
  /\ pc[t] = "Prepare_acquire"
  /\ error \in Acquire
  /\ frame' = [frame EXCEPT ![t].acquire_calls = @ + 1,
                            ![t].results = Append(@, error = "kErrorNone"),
                            ![t].error = error]
  /\ pc' = [pc EXCEPT ![t] = "Prepare_loop"]
  /\ UNCHANGED <<mgr_strategy, mgr_bits, locker_, devices, res_mgr_,
                 duplicate_registered>>

\* The loop body that leaves the loop after the first Acquire, whatever its
\* result.
PrepareAcquire_BreakOnFailure(t, error) ==
  /\ pc[t] = "Prepare_acquire"
  /\ error \in Acquire
  /\ frame' = [frame EXCEPT ![t].acquire_calls = @ + 1,
                            ![t].results = Append(@, error = "kErrorNone"),
                            ![t].accepted = IF error = "kErrorNone"
                                              THEN frame[t].get_calls ELSE @,
                            ![t].error = "kErrorNone",
                            ![t].session = FALSE]
  /\ pc' = [pc EXCEPT ![t] = "Prepare_return"]
  /\ UNCHANGED <<mgr_strategy, mgr_bits, locker_, devices, res_mgr_,
                 duplicate_registered>>

\* The loop body that gives up at the first failed Acquire and returns its
\* error.
PrepareAcquire_ReturnsFailure(t, error) ==
  /\ pc[t] = "Prepare_acquire"
  /\ error \in Acquire
  /\ frame' = [frame EXCEPT ![t].acquire_calls = @ + 1,
                            ![t].results = Append(@, error = "kErrorNone"),
                            ![t].accepted = IF error = "kErrorNone"
                                              THEN frame[t].get_calls ELSE @,
                            ![t].error = error,
                            ![t].session = FALSE]
  /\ pc' = [pc EXCEPT ![t] = "Prepare_return"]
  /\ UNCHANGED <<mgr_strategy, mgr_bits, locker_, devices, res_mgr_,
                 duplicate_registered>>

\* The loop body: Acquire; continue on failure, break and res_mgr_.Stop on
\* success.  frame[t].results is the outcome of each Acquire of this call;
\* frame[t].session is whether the call's res_mgr_.Start has had no
\* res_mgr_.Stop yet.
PrepareAcquire(t, error) ==
  /\ pc[t] = "Prepare_acquire"
  /\ error \in Acquire
  /\ IF error # "kErrorNone"
       THEN /\ frame' = [frame EXCEPT ![t].acquire_calls = @ + 1,
                                      ![t].results = Append(@, FALSE),
                                      ![t].error = error]
            /\ pc' = [pc EXCEPT ![t] = "Prepare_loop"]
       ELSE /\ frame' = [frame EXCEPT ![t].acquire_calls = @ + 1,
                                      ![t].results = Append(@, TRUE),
                                      ![t].accepted = frame[t].get_calls,
                                      ![t].error = "kErrorNone",
                                      ![t].session = FALSE]
            /\ pc' = [pc EXCEPT ![t] = "Prepare_return"]
  /\ UNCHANGED <<mgr_strategy, mgr_bits, locker_, devices, res_mgr_,
                 duplicate_registered>>

\* Prepare's return: frame[t].error is the value returned; the scope lock is
\* released.
PrepareReturn(t) ==
  /\ pc[t] = "Prepare_return"
  /\ locker_' = NoThread
  /\ pc' = [pc EXCEPT ![t] = "idle"]
  /\ frame' = [frame EXCEPT ![t] = IdleFrame]
  /\ UNCHANGED <<mgr_strategy, mgr_bits, devices, res_mgr_, duplicate_registered>>

\* PostCommit that leaves safe mode without comparing the two masks.
PostCommit_AlwaysNormal(t, h) ==
  /\ CanLock(t)
  /\ Ready
  /\ devices[h].live
  /\ configured_displays_' = SET_BIT(configured_displays_, devices[h].device_type)
  /\ safe_mode_' = FALSE
  /\ devices' = [devices EXCEPT ![h].committed = TRUE]
  /\ locker_' = t
  /\ pc' = [pc EXCEPT ![t] = "PostCommit_res_mgr"]
  /\ frame' = [frame EXCEPT ![t].device = h]
  /\ UNCHANGED <<mgr_strategy, registered_displays_, res_mgr_, duplicate_registered>>

\* PostCommit that sets the device's bit in the registered mask instead of the
\* configured mask.
PostCommit_SetsRegisteredBit(t, h) ==
  /\ CanLock(t)
  /\ Ready
  /\ devices[h].live
  /\ LET registered == SET_BIT(registered_displays_, devices[h].device_type)
     IN /\ registered_displays_' = registered
        /\ safe_mode_' = IF configured_displays_ = registered THEN FALSE ELSE safe_mode_
  /\ devices' = [devices EXCEPT ![h].committed = TRUE]
  /\ locker_' = t
  /\ pc' = [pc EXCEPT ![t] = "PostCommit_res_mgr"]
  /\ frame' = [frame EXCEPT ![t].device = h]
  /\ UNCHANGED <<mgr_strategy, configured_displays_, res_mgr_, duplicate_registered>>

\* PostCommit that sets the configured bit and never leaves safe mode.
PostCommit_KeepsSafe(t, h) ==
  /\ CanLock(t)
  /\ Ready
  /\ devices[h].live
  /\ configured_displays_' = SET_BIT(configured_displays_, devices[h].device_type)
  /\ devices' = [devices EXCEPT ![h].committed = TRUE]
  /\ locker_' = t
  /\ pc' = [pc EXCEPT ![t] = "PostCommit_res_mgr"]
  /\ frame' = [frame EXCEPT ![t].device = h]
  /\ UNCHANGED <<mgr_strategy, registered_displays_, safe_mode_, res_mgr_,
                 duplicate_registered>>

\* CompManager::PostCommit on a live handle, up to the call of the arbiter:
\* lock, the configured bit, the comparison of the two masks.
PostCommit(t, h) ==
  /\ CanLock(t)
  /\ Ready
  /\ devices[h].live
  /\ LET configured == SET_BIT(configured_displays_, devices[h].device_type)
     IN /\ configured_displays_' = configured
        /\ safe_mode_' = IF configured = registered_displays_ THEN FALSE ELSE safe_mode_
  /\ devices' = [devices EXCEPT ![h].committed = TRUE]
  /\ locker_' = t
  /\ pc' = [pc EXCEPT ![t] = "PostCommit_res_mgr"]
  /\ frame' = [frame EXCEPT ![t].device = h]
  /\ UNCHANGED <<mgr_strategy, registered_displays_, res_mgr_, duplicate_registered>>

\* The rest of CompManager::PostCommit: res_mgr_.PostCommit, and the return,
\* which releases the scope lock.
PostCommitResMgr(t) ==
  /\ pc[t] = "PostCommit_res_mgr"
  /\ locker_' = NoThread
  /\ pc' = [pc EXCEPT ![t] = "idle"]
  /\ frame' = [frame EXCEPT ![t] = IdleFrame]
  /\ UNCHANGED <<mgr_strategy, mgr_bits, devices, res_mgr_, duplicate_registered>>

\* Purge that also takes the device's type out of the configured mask.
Purge_ClearsConfigured(t, h) ==
  /\ CanLock(t)
  /\ Ready
  /\ devices[h].live
  /\ configured_displays_' = CLEAR_BIT(configured_displays_, devices[h].device_type)
  /\ UNCHANGED <<mgr_strategy, registered_displays_, safe_mode_, locker_, devices,
                 res_mgr_, duplicate_registered, pc, frame>>

\* CompManager::Purge on a live handle.
Purge(t, h) ==
  /\ CanLock(t)
  /\ Ready
  /\ devices[h].live
  /\ UNCHANGED vars

\* CompManager::PostPrepare and CompManager::AppendDump: the lock only.
PostPrepare(t) ==
  /\ CanLock(t)
  /\ Ready
  /\ UNCHANGED vars

AppendDump(t) ==
  /\ CanLock(t)
  /\ UNCHANGED vars

---------------------------------------------------------------------------
\* The calls of each entry point, over all its inputs; SCOPE_LOCK comes before
\* anything else in them.
RegisterCall(t) ==
  /\ CanLock(t)
  /\ \E type \in DeviceTypes, h \in Handles, alloc_ok \in BOOLEAN,
        res_error \in {"kErrorNone"} \cup ArbiterErrors :
       RegisterDevice(t, type, h, alloc_ok, res_error)

InitCall(t) ==
  /\ CanLock(t)
  /\ \E res_error \in {"kErrorNone"} \cup ArbiterErrors, dlopen_ok \in BOOLEAN,
        dlsym_ok \in BOOLEAN, entry_ok \in BOOLEAN :
       CompManagerInit(t, res_error, dlopen_ok, dlsym_ok, entry_ok)

PrepareCall(t) ==
  CanLock(t) /\ \E h \in Handles, flags \in BOOLEAN : PrepareStart(t, h, flags)

GetNextStrategyStep(t) ==
  \E error \in {"kErrorNone", "kErrorUndefined"} : PrepareGetNextStrategy(t, error)

AcquireStep(t) == \E error \in Acquire : PrepareAcquire(t, error)

UnregisterCall(t) == CanLock(t) /\ \E h \in Handles : UnregisterDevice(t, h)

PostCommitCall(t) == CanLock(t) /\ \E h \in Handles : PostCommit(t, h)

PurgeCall(t) == CanLock(t) /\ \E h \in Handles : Purge(t, h)

\* The manager without the observer of the arbiter's sessions.
Next ==
  \E t \in Threads :
    \/ InitCall(t) /\ UNCHANGED open_sessions
    \/ Return(t) /\ UNCHANGED open_sessions
    \/ Deinit(t) /\ UNCHANGED open_sessions
    \/ RegisterCall(t) /\ UNCHANGED open_sessions
    \/ UnregisterCall(t) /\ UNCHANGED open_sessions
    \/ PrepareCall(t) /\ UNCHANGED open_sessions
    \/ GetNextStrategyStep(t) /\ UNCHANGED open_sessions
    \/ AcquireStep(t) /\ UNCHANGED open_sessions
    \/ PrepareReturn(t) /\ UNCHANGED open_sessions
    \/ PostCommitCall(t) /\ UNCHANGED open_sessions
    \/ PostCommitResMgr(t) /\ UNCHANGED open_sessions
    \/ PurgeCall(t) /\ UNCHANGED open_sessions
    \/ PostPrepare(t) /\ UNCHANGED open_sessions
    \/ AppendDump(t) /\ UNCHANGED open_sessions

Spec == Init /\ [][Next]_vars

\* What a step does to the arbiter's sessions: res_mgr_.Start in the first step
\* of Prepare opens the device's session, res_mgr_.Stop after the loop closes
\* it, and res_mgr_.UnregisterDevice releases the session of the device it
\* removes.
SessionsStep ==
  LET started == {frame'[t].device :
                    t \in {u \in Threads : pc[u] = "idle" /\ pc'[u] = "Prepare_loop"}}
      stopped == {frame[t].device :
                    t \in {u \in Threads : frame[u].session /\ ~frame'[u].session
                                             /\ pc'[u] = "Prepare_return"}}
  IN open_sessions' = ((open_sessions \cup started) \ stopped) \cap LiveHandles'

\* The manager with the observer of the arbiter's sessions.
NextSessions ==
  \E t \in Threads :
    \/ InitCall(t) /\ SessionsStep
    \/ Return(t) /\ SessionsStep
    \/ Deinit(t) /\ SessionsStep
    \/ RegisterCall(t) /\ SessionsStep
    \/ UnregisterCall(t) /\ SessionsStep
    \/ PrepareCall(t) /\ SessionsStep
    \/ GetNextStrategyStep(t) /\ SessionsStep
    \/ AcquireStep(t) /\ SessionsStep
    \/ PrepareReturn(t) /\ SessionsStep
    \/ PostCommitCall(t) /\ SessionsStep
    \/ PostCommitResMgr(t) /\ SessionsStep
    \/ PurgeCall(t) /\ SessionsStep
    \/ PostPrepare(t) /\ SessionsStep
    \/ AppendDump(t) /\ SessionsStep

SpecSessions == Init /\ [][NextSessions]_vars

---------------------------------------------------------------------------
\* Claims about the registry, the two masks and the safety flag.

Registered == BitSet(registered_displays_)
Configured == BitSet(configured_displays_)

\* The live devices of a type, and those of them that have had a PostCommit.
DevicesOf(type) == {h \in LiveHandles : devices[h].device_type = type}
CommittedOf(type) == {h \in DevicesOf(type) : devices[h].committed}

\* C1 as stated: in every reachable state configured-set is a subset of
\* registered-set.
C1_ConfiguredSubsetOfRegistered == Configured \subseteq Registered

\* C1 amended: configured-set is a subset of registered-set in every state
\* reached without a RegisterDevice for a type that had a live Device.
C1_SubsetWithoutDuplicates ==
  ~duplicate_registered => Configured \subseteq Registered

\* C1: two types registered without duplicates, one of them configured.
C1_Witness ==
  /\ ~duplicate_registered
  /\ Cardinality(Registered) = 2
  /\ Cardinality(Configured) = 1

\* C2: no arbiter session is open when Prepare returns: on every return path
\* the res_mgr_.Start of the call has been followed by res_mgr_.Stop.
C2_SessionClosedAtReturn ==
  \A t \in Threads : pc[t] = "Prepare_return" => ~frame[t].session

\* C3: the flag goes from Safe to Normal exactly in a PostCommit step after
\* which configured-set equals registered-set: only such a step clears it, every
\* such step clears it, any other PostCommit leaves it as it was, and no
\* RegisterDevice or UnregisterDevice step clears it.
C3_NormalOnlyByPostCommit ==
  [][/\ (safe_mode_ /\ ~safe_mode_') =>
          \E t \in Threads, h \in Handles :
            PostCommit(t, h) /\ configured_displays_' = registered_displays_'
     /\ \A t \in Threads, h \in Handles :
          PostCommit(t, h) =>
            IF configured_displays_' = registered_displays_'
              THEN ~safe_mode_' ELSE safe_mode_' = safe_mode_
     /\ (safe_mode_ /\ ~safe_mode_') =>
          ~\E t \in Threads : RegisterCall(t) \/ UnregisterCall(t)]_vars

\* C3: the flag is Normal while two displays are registered, which only the
\* PostCommit that completed the configured-set brings about.
C3_Witness ==
  /\ ~safe_mode_
  /\ configured_displays_ = registered_displays_
  /\ Cardinality(LiveHandles) = 2
  /\ Cardinality(Registered) = 2

\* C4 as stated (its second form): whenever the flag is Normal,
\* configured-set equals registered-set.
C4_NormalImpliesEqual ==
  ~safe_mode_ => configured_displays_ = registered_displays_

\* C4 amended: whenever some registered type is not configured the flag is
\* Safe, that is, whenever the flag is Normal registered-set is a subset of
\* configured-set; the two sets are equal in Normal as long as no RegisterDevice
\* was made for a type that had a live Device.
C4_UnconfiguredImpliesSafe ==
  /\ (Registered \ Configured # {}) => safe_mode_
  /\ ~safe_mode_ => Registered \subseteq Configured
  /\ (~safe_mode_ /\ ~duplicate_registered) =>
       configured_displays_ = registered_displays_

\* C4: display A is configured, display B is registered and has had no
\* PostCommit, and the flag is Safe.
C4_Witness ==
  /\ safe_mode_
  /\ \E a \in Handles, b \in Handles :
       /\ devices[a].live /\ devices[a].committed
       /\ devices[b].live /\ ~devices[b].committed
       /\ devices[a].device_type \in Configured
       /\ devices[b].device_type \in Registered \ Configured

\* C5: right after every successful RegisterDevice(type), the step that brings
\* a Device of that type to life, the type's bit is in registered-set and the
\* flag is Safe, whatever they were before.
C5_RegisterSetsBitAndSafe ==
  [][\A h \in Handles :
       (~devices[h].live /\ devices'[h].live) =>
         /\ \E t \in Threads :
              RegisterDevice(t, devices'[h].device_type, h, TRUE, "kErrorNone")
         /\ IS_BIT_SET(registered_displays_', devices'[h].device_type)
         /\ safe_mode_']_vars

\* C5: a type registered a second time while its bit was already set and
\* configured: the bit is set and the flag is Safe.
C5_Witness ==
  /\ safe_mode_
  /\ \E type \in DeviceTypes :
       /\ Cardinality(DevicesOf(type)) = 2
       /\ Cardinality(CommittedOf(type)) = 1
       /\ IS_BIT_SET(registered_displays_, type)
       /\ IS_BIT_SET(configured_displays_, type)

\* C6 as stated: a type's bit is in registered-set if and only if a Device of
\* that type is live.
C6_RegisteredIffLive ==
  \A type \in DeviceTypes : IS_BIT_SET(registered_displays_, type) <=> type \in LiveTypes

\* C6 amended: a bit in registered-set always has a live Device of its type;
\* every live Device has its bit in registered-set as long as no RegisterDevice
\* was made for a type that had a live Device.
C6_RegisteredImpliesLive ==
  /\ \A type \in DeviceTypes : IS_BIT_SET(registered_displays_, type) => type \in LiveTypes
  /\ ~duplicate_registered =>
       \A type \in DeviceTypes :
         IS_BIT_SET(registered_displays_, type) <=> type \in LiveTypes

\* C6: without duplicates, the first heap slot was freed by UnregisterDevice
\* while another slot still holds a live Device with its bit set.
C6_Witness ==
  /\ ~duplicate_registered
  /\ ~devices[1].live
  /\ LiveHandles # {}
  /\ Registered = LiveTypes

\* C7 as stated: a type's bit is in configured-set if and only if a live
\* Device of that type has had a PostCommit since it was registered.
C7_ConfiguredIffCommitted ==
  \A type \in DeviceTypes :
    IS_BIT_SET(configured_displays_, type) <=> CommittedOf(type) # {}

\* C7 amended: a bit in configured-set always has a live Device of its type
\* that has had a PostCommit since it was registered; the converse holds as
\* long as no RegisterDevice was made for a type that had a live Device.
C7_ConfiguredImpliesCommitted ==
  /\ \A type \in DeviceTypes :
       IS_BIT_SET(configured_displays_, type) => CommittedOf(type) # {}
  /\ ~duplicate_registered =>
       \A type \in DeviceTypes :
         IS_BIT_SET(configured_displays_, type) <=> CommittedOf(type) # {}

\* C7: without duplicates, the Device in the first heap slot has had no
\* PostCommit and its type is not in configured-set, while the type of the
\* Device in the last slot, which has had one, is.
C7_Witness ==
  /\ ~duplicate_registered
  /\ devices[1].live /\ ~devices[1].committed
  /\ CommittedOf(devices[1].device_type) = {}
  /\ ~IS_BIT_SET(configured_displays_, devices[1].device_type)
  /\ devices[MaxDevices].live /\ devices[MaxDevices].committed
  /\ IS_BIT_SET(configured_displays_, devices[MaxDevices].device_type)

---------------------------------------------------------------------------
\* Claims about the strategy selection loop of Prepare.

\* C8: a Prepare that returns an error has had every candidate the provider
\* offered rejected by Acquire, the last offered one included, so a provider
\* whose last offered candidate is accepted never makes Prepare fail; with the
\* built-in provider and an arbiter that rejected nothing, Prepare returns
\* success after one GetNextStrategy and one Acquire.
C8_NoExhaustionWhenLastAccepted ==
  \A t \in Threads :
    pc[t] = "Prepare_return" =>
      LET f == frame[t]
      IN /\ f.error # "kErrorNone" =>
              /\ f.acquire_calls = f.get_calls - 1
              /\ Len(f.results) = f.acquire_calls
              /\ \A i \in 1..Len(f.results) : ~f.results[i]
         /\ (strategy_intf_ = "default" /\ \A i \in 1..Len(f.results) : f.results[i]) =>
              /\ f.error = "kErrorNone"
              /\ f.get_calls = 1
              /\ f.acquire_calls = 1

\* C8: a Prepare with the built-in provider returns success after its one
\* candidate was accepted.
C8_Witness ==
  \E t \in Threads :
    /\ pc[t] = "Prepare_return"
    /\ strategy_intf_ = "default"
    /\ frame[t].results = <<TRUE>>
    /\ frame[t].error = "kErrorNone"

\* C9: the loop stops at the first candidate whose Acquire succeeds: a Prepare
\* that returns success after the arbiter rejected candidates 1..N-1 and
\* accepted candidate N has accepted N with N calls of GetNextStrategy and N of
\* Acquire, nothing is asked after an accepted candidate, and the loop never
\* makes more calls than the provider has candidates, plus the one that finds
\* it exhausted.
C9_StopsAtFirstAccepted ==
  \A t \in Threads :
    LET f == frame[t]
        n == Len(f.results)
    IN /\ f.acquire_calls = n
       /\ f.get_calls <= MaxCandidates + 1
       /\ f.get_calls \in {n, n + 1}
       /\ \A i \in 1..n :
            f.results[i] =>
              /\ i = n
              /\ pc[t] = "Prepare_return"
              /\ f.accepted = n
              /\ f.get_calls = n
              /\ f.error = "kErrorNone"
       /\ (pc[t] = "Prepare_return" /\ f.error = "kErrorNone") =>
            /\ n >= 1
            /\ f.results[n]
            /\ f.accepted = n
            /\ f.get_calls = n

\* C9: a Prepare returns success with candidate 2 after candidate 1 was
\* rejected.
C9_Witness ==
  \E t \in Threads :
    /\ pc[t] = "Prepare_return"
    /\ frame[t].results = <<FALSE, TRUE>>
    /\ frame[t].accepted = 2
    /\ frame[t].get_calls = 2
    /\ frame[t].acquire_calls = 2

\* The steps of Prepare.
PrepareStep ==
  \E t \in Threads :
    PrepareCall(t) \/ GetNextStrategyStep(t) \/ AcquireStep(t) \/ PrepareReturn(t)

\* C10: in every Prepare the safe value in the device's constraints, and so
\* every value the provider receives, is the global flag or-ed with the
\* cycle's validation-failure signal, whatever an earlier cycle left there; and
\* no step of Prepare changes the global flag.
C10_ProviderSeesFlagOrSignal ==
  /\ [](\A t \in Threads :
          pc[t] \in {"Prepare_loop", "Prepare_acquire", "Prepare_return"} =>
            LET f == frame[t]
            IN /\ devices[f.device].constraints_safe_mode = (safe_mode_ \/ f.flags)
               /\ f.seen \subseteq {safe_mode_ \/ f.flags}
               /\ f.get_calls >= 1 => f.seen # {})
  /\ [][safe_mode_' # safe_mode_ => ~PrepareStep]_vars

\* C10: the provider has received safe=true for a cycle with the validation
\* failure signal while the global flag is Normal.
C10_Witness ==
  \E t \in Threads :
    /\ pc[t] = "Prepare_acquire"
    /\ frame[t].flags
    /\ ~safe_mode_
    /\ frame[t].seen = {TRUE}

---------------------------------------------------------------------------
\* Claims about initialisation and the failure paths of RegisterDevice.

C12_ArbiterFailureLeavesState ==
  [][(\E t \in Threads : pc[t] = "idle" /\ pc'[t] = "RegisterDevice_return") =>
       \A t \in Threads, type \in DeviceTypes, h \in Handles,
          res_error \in ArbiterErrors :
         RegisterDevice(t, type, h, TRUE, res_error) =>
           /\ frame'[t].error = res_error
           /\ UNCHANGED <<registered_displays_, configured_displays_, safe_mode_>>
           /\ devices' = devices
           /\ LiveHandles' = LiveHandles]_vars

\* C12: a RegisterDevice is about to return the arbiter's error while another
\* display is registered and configured and the flag is Normal.
C12_Witness ==
  \E t \in Threads :
    /\ pc[t] = "RegisterDevice_return"
    /\ frame[t].error = "kErrorHardware"
    /\ ~safe_mode_
    /\ Cardinality(LiveHandles) = 1
    /\ configured_displays_ = registered_displays_
    /\ registered_displays_ # 0

---------------------------------------------------------------------------
\* Claims about what each entry point changes and leaves alone.

\* C13: the step that ends the life of a Device is an UnregisterDevice of it,
\* and after it the bit of the Device's type is in neither mask, whether or not
\* the Device had had a PostCommit, while the bits of every other type are in
\* each mask exactly as before.
C13_UnregisterClearsBothBits ==
  [][\A h \in Handles :
       (devices[h].live /\ ~devices'[h].live) =>
         LET type == devices[h].device_type
         IN /\ \E t \in Threads : UnregisterDevice(t, h)
            /\ ~IS_BIT_SET(registered_displays_', type)
            /\ ~IS_BIT_SET(configured_displays_', type)
            /\ \A other \in DeviceTypes \ {type} :
                 /\ IS_BIT_SET(registered_displays_', other) <=>
                      IS_BIT_SET(registered_displays_, other)
                 /\ IS_BIT_SET(configured_displays_', other) <=>
                      IS_BIT_SET(configured_displays_, other)]_vars

\* C13: a Device that never had a PostCommit was unregistered while a
\* configured display of another type stays: the first heap slot is free again,
\* the two masks are equal with the other type's bit in them, and the flag is
\* still Safe.
C13_Witness ==
  /\ ~duplicate_registered
  /\ ~devices[1].live
  /\ \E h \in LiveHandles : devices[h].committed
  /\ configured_displays_ = registered_displays_
  /\ registered_displays_ # 0
  /\ safe_mode_
  /\ \A t \in Threads : pc[t] = "idle"

\* The calls of Purge.
PurgeStep == \E t \in Threads : PurgeCall(t)

\* C14: no step of Prepare and no Purge changes registered-set, configured-set
\* or the flag; UnregisterDevice leaves the flag as it was; registered-set is
\* changed only by RegisterDevice, which adds a bit, and UnregisterDevice, which
\* removes one; configured-set is changed only by PostCommit, which adds a bit,
\* and UnregisterDevice, which removes one.
C14_FrameConditions ==
  [][/\ mgr_bits' # mgr_bits => ~PrepareStep /\ ~PurgeStep
     /\ safe_mode_' # safe_mode_ => ~\E t \in Threads : UnregisterCall(t)
     /\ registered_displays_' # registered_displays_ =>
          \/ /\ \E t \in Threads : RegisterCall(t)
             /\ BitSet(registered_displays_) \subseteq BitSet(registered_displays_')
          \/ /\ \E t \in Threads : UnregisterCall(t)
             /\ BitSet(registered_displays_') \subseteq BitSet(registered_displays_)
     /\ configured_displays_' # configured_displays_ =>
          \/ /\ \E t \in Threads : PostCommitCall(t)
             /\ BitSet(configured_displays_) \subseteq BitSet(configured_displays_')
          \/ /\ \E t \in Threads : UnregisterCall(t)
             /\ BitSet(configured_displays_') \subseteq BitSet(configured_displays_)]_vars

\* C14: a Prepare is about to return success while one display is configured,
\* another is registered only, and the flag is Safe.
C14_Witness ==
  \E t \in Threads :
    /\ pc[t] = "Prepare_return"
    /\ frame[t].error = "kErrorNone"
    /\ safe_mode_
    /\ Cardinality(Configured) = 1
    /\ Cardinality(Registered) = 2
    /\ ~duplicate_registered

---------------------------------------------------------------------------
\* Claims about the scope lock.

\* The threads that are inside an entry point.
Inside == {t \in Threads : pc[t] # "idle"}

\* C15: at most one thread is inside an entry point, and it is the holder of
\* the lock; the lock is held by nobody once the call has returned, on the
\* error returns of Prepare and RegisterDevice as on the others; while a thread
\* is inside, every step is a step of that thread, so no other call reads or
\* writes the masks and the flag between two steps of a call; and a call is
\* entered only when the lock is free.
C15_OneThreadInside ==
  /\ [](/\ Cardinality(Inside) <= 1
        /\ \A t \in Threads : pc[t] # "idle" <=> locker_ = t)
  /\ [][/\ locker_ # NoThread =>
             /\ \A u \in Threads \ {locker_} : pc'[u] = pc[u] /\ frame'[u] = frame[u]
             /\ locker_' \in {locker_, NoThread}
        /\ \A t \in Threads : (pc[t] = "idle" /\ pc'[t] # "idle") => locker_ = NoThread
        /\ \A t \in Threads : (pc[t] # "idle" /\ pc'[t] = "idle") => locker_' = NoThread
       ]_vars

\* C15: the last thread is inside RegisterDevice on a failure return path,
\* holding the lock, with every other thread outside.
C15_Witness ==
  /\ locker_ = MaxThreads
  /\ pc[MaxThreads] = "RegisterDevice_return"
  /\ frame[MaxThreads].error = "kErrorMemory"
  /\ Inside = {MaxThreads}
  /\ LiveHandles # {}

---------------------------------------------------------------------------
\* Claims about the order of the calls made to the arbiter and the provider.

\* C16: in a PostCommit call the arbiter's PostCommit comes first: the steps of
\* the call that come before res_mgr_.PostCommit change neither configured-set
\* nor the flag.
C16_ArbiterBeforeTransition ==
  [][\A t \in Threads :
       pc'[t] = "PostCommit_res_mgr" =>
         /\ configured_displays_' = configured_displays_
         /\ safe_mode_' = safe_mode_]_vars

\* C17: Prepare returns an error only when GetNextStrategy has returned one,
\* and then it returns that value; the error of a failed Acquire is never the
\* value returned; and the call that got the provider's error makes no further
\* call of GetNextStrategy or Acquire: its next step is the return.
C17_OnlyProviderErrorReturned ==
  /\ [](\A t \in Threads :
          LET f == frame[t]
          IN /\ f.provided # "kErrorNone" =>
                  /\ pc[t] = "Prepare_return"
                  /\ f.error = f.provided
                  /\ f.get_calls = f.acquire_calls + 1
             /\ (pc[t] = "Prepare_return" /\ f.error # "kErrorNone") =>
                  /\ f.provided = f.error
                  /\ f.error \notin Acquire
             /\ (pc[t] = "Prepare_return" /\ f.provided = "kErrorNone") =>
                  f.error = "kErrorNone")
  /\ [][\A t \in Threads :
          frame[t].provided # "kErrorNone" =>
            \/ frame'[t] = frame[t]
            \/ pc'[t] = "idle" /\ locker_' = NoThread]_vars

\* C17: a Prepare is about to return the provider's error after the one
\* Acquire of the call had failed.
C17_Witness ==
  \E t \in Threads :
    /\ pc[t] = "Prepare_return"
    /\ frame[t].results = <<FALSE>>
    /\ frame[t].provided = "kErrorUndefined"
    /\ frame[t].error = "kErrorUndefined"
    /\ frame[t].get_calls = 2

\* C18: the arbiter's sessions never overlap: in every reachable state at most
\* one device has a session that res_mgr_.Start opened and no res_mgr_.Stop has
\* closed, and a Prepare opens the session of its device only when no other
\* device's is open.
C18_AtMostOneSession ==
  /\ Cardinality(open_sessions) <= 1
  /\ \A t \in Threads :
       pc[t] \in {"Prepare_loop", "Prepare_acquire"} =>
         open_sessions = {frame[t].device}

---------------------------------------------------------------------------
\* The manager under fair scheduling: a thread that is inside an entry point
\* goes on to its return.  Whether a client calls an entry point at all is its
\* own choice.

\* The steps a thread inside an entry point takes.
InCallStep ==
  /\ \E t \in Threads :
       \/ Return(t)
       \/ GetNextStrategyStep(t)
       \/ AcquireStep(t)
       \/ PrepareReturn(t)
       \/ PostCommitResMgr(t)
  /\ UNCHANGED open_sessions

\* A PostCommit call for device h, by any thread: the caller goes from outside
\* to the arbiter's PostCommit.
PostCommitOf(h) ==
  /\ \E t \in Threads :
       /\ pc[t] = "idle"
       /\ pc'[t] = "PostCommit_res_mgr"
       /\ PostCommit(t, h)
  /\ UNCHANGED open_sessions

FairSpec ==
  /\ Init
  /\ [][Next]_vars
  /\ WF_vars(InCallStep)

\* A RegisterDevice call that succeeds: the caller goes from outside to the
\* return of kErrorNone.
RegisterSucceeds ==
  \E t \in Threads :
    /\ pc[t] = "idle"
    /\ pc'[t] = "RegisterDevice_return"
    /\ frame'[t].error = "kErrorNone"
    /\ \E type \in DeviceTypes, h \in Handles :
         RegisterDevice(t, type, h, TRUE, "kErrorNone")

\* The premises of C19: from some point on no RegisterDevice succeeds, and
\* every device gets a PostCommit again and again for as long as it is
\* registered (each handle sees, again and again, a PostCommit of it or a step
\* made while it is not registered).
NoFurtherRegister == <>[][~RegisterSucceeds]_vars

EveryDeviceCommits ==
  \A h \in Handles : []<><<PostCommitOf(h) \/ ~devices[h].live>>_vars

\* C19 as stated: if from some point on no RegisterDevice succeeds and every
\* registered device gets its PostCommit, the flag is eventually Normal for
\* good.
C19_EventuallyNormal ==
  (NoFurtherRegister /\ EveryDeviceCommits) => <>[](~safe_mode_)

\* C19 amended: the same, provided a device stays registered and no
\* RegisterDevice was made for a type that had a live Device; the flag goes
\* from Normal to Safe only in a RegisterDevice that succeeds; and it stays Safe
\* through an UnregisterDevice, also one after which configured-set equals
\* registered-set, until a PostCommit.
C19_NormalWhileDeviceStays ==
  /\ (/\ NoFurtherRegister
      /\ EveryDeviceCommits
      /\ <>[](LiveHandles # {})
      /\ [](~duplicate_registered)) => <>[](~safe_mode_)
  /\ [][(~safe_mode_ /\ safe_mode_') => RegisterSucceeds]_vars
  /\ [][(safe_mode_ /\ ~safe_mode_') => \E h \in Handles : PostCommitOf(h)]_vars

\* C19: a device stays registered after an UnregisterDevice took away the only
\* display that had no PostCommit: configured-set equals registered-set, no
\* type was registered twice, every thread is outside, and the flag is still
\* Safe, waiting for the next PostCommit.
C19_Witness ==
  /\ safe_mode_
  /\ LiveHandles # {}
  /\ registered_displays_ # 0
  /\ configured_displays_ = registered_displays_
  /\ ~duplicate_registered
  /\ res_mgr_ = "inited"
  /\ \A t \in Threads : pc[t] = "idle"

============================================================================
